---- MODULE Spec2Model ----
(***************************************************************************)
(* Model of spanner_metad_to_bq.py: discovery of Spanner databases over a  *)
(* list of projects, extraction of INFORMATION_SCHEMA.COLUMNS rows, and    *)
(* batched loading into one BigQuery table.                                *)
(*                                                                         *)
(* Strings are sequences of one-character strings, so that Python's        *)
(* substring test ('backups' in name) and name.split('/')[-1] are computed *)
(* the way Python computes them.                                           *)
(***************************************************************************)
EXTENDS Integers, Sequences, FiniteSets, TLC

VARIABLES
    pc,                 \* position of main: "start", "loop", "extract", "cadence", "done", "aborted"
    total_projects,     \* len(TARGET_PROJECTS)
    i,                  \* 0-based index of the project being processed (number of finished iterations)
    bq,                 \* the BigQuery destination: dataset / table existence, schema, stored rows
    all_metadata_rows,  \* main's batch buffer
    spanner_resources,  \* main's resource list of the current project
    r,                  \* 1-based position in spanner_resources of the next resource to extract
    rows,               \* main's `rows`: the value of the last get_spanner_metadata call
    caught,             \* which except clause the last discovery / extraction call ran ("none" if none)
    discoveryLog,       \* history: project ids passed to list_spanner_resources, in call order
    returned,           \* history: every row some get_spanner_metadata call returned
    flushLog,           \* history: 1-based project positions at which the flush block (l.239-254) ran
    insertCalls,        \* history: the row batches passed to insert_rows_json, in call order
    insertErrors,       \* history: TRUE once some insert_rows_json call reported per-row errors
    setupCalls,         \* history: number of setup_bigquery_table calls
    truncations,        \* history: number of TRUNCATE TABLE statements run
    world,              \* input: the Spanner admin backend the last list_spanner_resources call met
    db,                 \* input: the database the last get_spanner_metadata call met
    dest0               \* SetupSpec: the destination before the first setup_bigquery_table call

vars == <<pc, total_projects, i, bq, all_metadata_rows, spanner_resources, r, rows, caught,
          discoveryLog, returned, flushLog, insertCalls, insertErrors, setupCalls, truncations,
          world, db, dest0>>

(***************************************************************************)
(* Bounds of the model.                                                    *)
(***************************************************************************)
MaxProjects == 6      \* longest TARGET_PROJECTS list explored
MaxInstances == 2     \* ListSpec: most instances a project lists
MaxDatabases == 2     \* ListSpec: most databases a project lists over all its instances
MaxOldRows == 3       \* SetupSpec: most rows an existing destination table holds
MaxSetupCalls == 2    \* SetupSpec: setup_bigquery_table calls made in a row

FlushEvery == 5       \* the batch cadence of line 238

(***************************************************************************)
(* Strings.                                                                *)
(***************************************************************************)
Min(a, b) == IF a < b THEN a ELSE b

Digits == <<"1", "2", "3", "4", "5", "6", "7", "8", "9">>

S_projects == <<"p", "r", "o", "j", "e", "c", "t", "s">>
S_instances == <<"i", "n", "s", "t", "a", "n", "c", "e", "s">>
S_databases == <<"d", "a", "t", "a", "b", "a", "s", "e", "s">>
S_backups == <<"b", "a", "c", "k", "u", "p", "s">>
S_spanner_type == "spanner_type"
Slash == "/"

\* Python: sub in s
Contains(s, sub) ==
    \E k \in 1..(Len(s) - Len(sub) + 1) : SubSeq(s, k, k + Len(sub) - 1) = sub

\* Python: s.split('/')[-1]
LastSegment(s) ==
    LET cuts == {k \in 1..Len(s) : s[k] = Slash}
        last == IF cuts = {} THEN 0 ELSE CHOOSE k \in cuts : \A m \in cuts : m <= k
    IN SubSeq(s, last + 1, Len(s))

\* "/".join(segs)
RECURSIVE Join(_)
Join(segs) ==
    IF Len(segs) = 0 THEN <<>>
    ELSE IF Len(segs) = 1 THEN segs[1]
    ELSE segs[1] \o <<Slash>> \o Join(Tail(segs))

RECURSIVE Flatten(_)
Flatten(ss) == IF ss = <<>> THEN <<>> ELSE Head(ss) \o Flatten(Tail(ss))

Range(s) == {s[k] : k \in 1..Len(s)}

NoDuplicates(s) == \A a, b \in 1..Len(s) : a # b => s[a] # s[b]

(***************************************************************************)
(* Exceptions.  A call either returns or raises; `raised` is the exception *)
(* that leaves the function, `caught` the except clause that handled one.  *)
(***************************************************************************)
ExcKinds == {"NotFound", "PermissionDenied", "DeadlineExceeded"}

Returned(v) == [raised |-> "none", caught |-> "none", value |-> v]
Handled(clause, v) == [raised |-> "none", caught |-> clause, value |-> v]
Propagated(exc) == [raised |-> exc, caught |-> "none", value |-> <<>>]

(***************************************************************************)
(* The Spanner admin backend seen by list_spanner_resources: the instances *)
(* of the project, each with the raw names of its databases, and at most   *)
(* one point where a listing raises: `where` = "instances" raises from the *)
(* instance iterator after it yielded `after` instances, `where` =         *)
(* "databases" raises from the database iterator of instance `inst` after  *)
(* it yielded `after` databases.                                           *)
(***************************************************************************)
TARGET_PROJECTS == [k \in 1..total_projects |-> <<"P", Digits[k]>>]

InstanceShort(k) == <<"i", Digits[k]>>
InstanceName(project_id, k, qualified) ==
    IF qualified THEN Join(<<S_projects, project_id, S_instances, InstanceShort(k)>>)
    ELSE InstanceShort(k)

DbKinds == {"database", "backup", "bare"}
DbShort(j) == <<"d", "b", Digits[j]>>
DbName(instName, j, kind) ==
    CASE kind = "database" -> Join(<<instName, S_databases, DbShort(j)>>)
      [] kind = "backup" -> Join(<<DbShort(1), S_backups, <<"b", "1">>>>)
      [] kind = "bare" -> DbShort(j)

NoFault == [where |-> "none", inst |-> 0, after |-> 0, exc |-> "none"]

\* the number of databases of the instances before instance k
RECURSIVE Before(_, _)
Before(lens, k) == IF k <= 1 THEN 0 ELSE lens[k - 1] + Before(lens, k - 1)

\* how many databases each instance lists
Lengths ==
    UNION {{lens \in [1..n -> 0..MaxDatabases] : Before(lens, n + 1) <= MaxDatabases} :
            n \in 0..MaxInstances}

\* for each instance, the kinds of the databases it lists
Shapes ==
    UNION {{[k \in 1..Len(lens) |-> [j \in 1..lens[k] |-> kinds[Before(lens, k) + j]]] :
                kinds \in [1..Before(lens, Len(lens) + 1) -> DbKinds]} : lens \in Lengths}

Faults(sh) ==
    {NoFault}
    \cup {[where |-> "instances", inst |-> 0, after |-> a, exc |-> e] :
            a \in 0..Len(sh), e \in ExcKinds}
    \cup UNION {{[where |-> "databases", inst |-> k, after |-> a, exc |-> e] :
                    a \in 0..Len(sh[k]), e \in ExcKinds} : k \in 1..Len(sh)}

Instances(project_id, sh, qualified) ==
    [k \in 1..Len(sh) |->
        LET name == InstanceName(project_id, k, qualified)
        IN [name |-> name,
            databases |-> [j \in 1..Len(sh[k]) |-> DbName(name, j, sh[k][j])]]]

World(project_id, sh, qualified, fault) ==
    [instances |-> Instances(project_id, sh, qualified), fault |-> fault]

(***************************************************************************)
(* list_spanner_resources (l.138-176).                                     *)
(***************************************************************************)
\* Fault-injected variant of l.159: the test for '/' is left out.
IsDatabaseBackupsOnly(name) == ~Contains(name, S_backups)

\* l.159: '/' in db.name and 'backups' not in db.name
IsDatabase(name) == Contains(name, <<Slash>>) /\ ~Contains(name, S_backups)

\* l.160-165: the appended dictionary
Resource(instName, dbName) ==
    [instance_id |-> LastSegment(instName), database_id |-> LastSegment(dbName)]

\* l.155-165: the inner loop over the databases the iterator yielded
RECURSIVE ScanDatabases(_, _, _)
ScanDatabases(instName, dbs, resources) ==
    IF dbs = <<>> THEN resources
    ELSE ScanDatabases(instName, Tail(dbs),
                       IF IsDatabase(Head(dbs))
                       THEN Append(resources, Resource(instName, Head(dbs)))
                       ELSE resources)

\* l.147-167: the try body from instance k on; the result is the exception
\* that ends it ("none" when it reaches the return of l.167) and `resources`
\* as it stands at that moment.
RECURSIVE ScanInstances(_, _, _)
ScanInstances(w, k, resources) ==
    LET f == w.fault
    IN IF f.where = "instances" /\ f.after = k - 1
       THEN [exc |-> f.exc, resources |-> resources]
       ELSE IF k > Len(w.instances)
       THEN [exc |-> "none", resources |-> resources]
       ELSE LET inst == w.instances[k]
            IN IF f.where = "databases" /\ f.inst = k
               THEN [exc |-> f.exc,
                     resources |-> ScanDatabases(inst.name, SubSeq(inst.databases, 1, f.after),
                                                 resources)]
               ELSE ScanInstances(w, k + 1, ScanDatabases(inst.name, inst.databases, resources))

\* Fault-injected variant of l.169-174: only NotFound is handled.
list_spanner_resources_NotFoundOnly(project_id, w) ==
    LET body == ScanInstances(w, 1, <<>>)
    IN IF body.exc = "none" THEN Returned(body.resources)
       ELSE IF body.exc = "NotFound" THEN Handled("NotFound", body.resources)
       ELSE Propagated(body.exc)

list_spanner_resources(project_id, w) ==
    LET body == ScanInstances(w, 1, <<>>)
    IN IF body.exc = "none" THEN Returned(body.resources)
       ELSE IF body.exc = "NotFound" THEN Handled("NotFound", body.resources)
       ELSE IF body.exc = "PermissionDenied" THEN Handled("PermissionDenied", body.resources)
       ELSE IF body.exc \in ExcKinds THEN Handled("Exception", body.resources)
       ELSE Propagated(body.exc)

(***************************************************************************)
(* get_spanner_metadata (l.88-136).  The database seen by one call: the    *)
(* number of columns its default schema holds and at most one point where  *)
(* the call raises: "snapshot" (l.95-101), "probe" (l.102-108) or "query", *)
(* from the result iterator of l.112 after it yielded `after` rows.        *)
(***************************************************************************)
PyExceptions == ExcKinds \cup {"KeyError"}     \* subclasses of Exception

\* l.54-64: the fields of the result set's descriptor, in SELECT order
QueryFields ==
    <<"table_catalog", "table_schema", "table_name", "column_name", "ordinal_position",
      "column_default", "is_nullable", "spanner_type", "is_generated", "generation_expression">>

\* the k-th row INFORMATION_SCHEMA.COLUMNS gives for the default schema
CatalogRow(k) ==
    <<"", "", "t1", <<"c", Digits[k]>>, k, "NULL", "YES", "STRING", "NEVER", "NULL">>

\* l.114: dict(zip(column_names, row))
Zip(names, values) ==
    LET n == Min(Len(names), Len(values))
    IN [f \in {names[k] : k \in 1..n} |->
            values[CHOOSE k \in 1..n : names[k] = f /\ \A m \in (k + 1)..n : names[m] # f]]

\* l.117-123: the provenance fields and the rename of spanner_type
Enrich(row_dict, project_id, instance_id, database_id) ==
    [f \in (DOMAIN row_dict \ {S_spanner_type})
            \cup {"project_id", "instance_id", "database_id", "spanner_data_type"} |->
        CASE f = "project_id" -> project_id
          [] f = "instance_id" -> instance_id
          [] f = "database_id" -> database_id
          [] f = "spanner_data_type" -> row_dict[S_spanner_type]
          [] OTHER -> row_dict[f]]

\* l.111-125: the loop over the k rows the iterator yielded
RECURSIVE BuildRows(_, _, _, _, _, _)
BuildRows(column_names, k, n, project_id, instance_id, database_id) ==
    IF k > n THEN [exc |-> "none", metadata_rows |-> <<>>]
    ELSE LET row_dict == Zip(column_names, CatalogRow(k))
             rest == BuildRows(column_names, k + 1, n, project_id, instance_id, database_id)
         IN IF S_spanner_type \notin DOMAIN row_dict
            THEN [exc |-> "KeyError", metadata_rows |-> <<>>]
            ELSE [exc |-> rest.exc,
                  metadata_rows |->
                      <<Enrich(row_dict, project_id, instance_id, database_id)>>
                          \o rest.metadata_rows]

\* l.95-128: the try body; metadata_rows is what was built when it ended
ExtractBody(project_id, instance_id, database_id, d) ==
    LET f == d.fault
    IN IF f.where \in {"snapshot", "probe"}
       THEN [exc |-> f.exc, metadata_rows |-> <<>>]
       ELSE LET yielded == IF f.where = "query" THEN f.after ELSE d.ncols
                built == BuildRows(QueryFields, 1, yielded, project_id, instance_id, database_id)
            IN IF built.exc # "none" THEN built
               ELSE IF f.where = "query" THEN [exc |-> f.exc, metadata_rows |-> built.metadata_rows]
               ELSE built

\* Fault-injected variant of l.134-136: the catch-all returns the rows built so far.
get_spanner_metadata_KeepsPartial(project_id, instance_id, database_id, d) ==
    LET body == ExtractBody(project_id, instance_id, database_id, d)
    IN IF body.exc = "none" THEN Returned(body.metadata_rows)
       ELSE IF body.exc = "NotFound" THEN Handled("NotFound", <<>>)
       ELSE IF body.exc = "PermissionDenied" THEN Handled("PermissionDenied", <<>>)
       ELSE IF body.exc \in PyExceptions THEN Handled("Exception", body.metadata_rows)
       ELSE Propagated(body.exc)

get_spanner_metadata(project_id, instance_id, database_id, d) ==
    LET body == ExtractBody(project_id, instance_id, database_id, d)
    IN IF body.exc = "none" THEN Returned(body.metadata_rows)
       ELSE IF body.exc = "NotFound" THEN Handled("NotFound", <<>>)
       ELSE IF body.exc = "PermissionDenied" THEN Handled("PermissionDenied", <<>>)
       ELSE IF body.exc \in PyExceptions THEN Handled("Exception", <<>>)
       ELSE Propagated(body.exc)

NoDbFault == [where |-> "none", after |-> 0, exc |-> "none"]

DbFaults(ncols) ==
    {NoDbFault}
    \cup {[where |-> w, after |-> 0, exc |-> e] : w \in {"snapshot", "probe"}, e \in ExcKinds}
    \cup {[where |-> "query", after |-> a, exc |-> e] : a \in 0..ncols, e \in ExcKinds}

\* The databases the driver meets: an empty catalog, and a catalog of one
\* column that answers or fails at any point of the call.
DbStates ==
    {[ncols |-> 0, fault |-> NoDbFault]} \cup {[ncols |-> 1, fault |-> f] : f \in DbFaults(1)}

(***************************************************************************)
(* The BigQuery destination and setup_bigquery_table (l.178-200).          *)
(***************************************************************************)
Field(name, type, mode) == [name |-> name, type |-> type, mode |-> mode]

\* l.36-50
BQ_SCHEMA ==
    <<Field("project_id", "STRING", "REQUIRED"),
      Field("instance_id", "STRING", "REQUIRED"),
      Field("database_id", "STRING", "REQUIRED"),
      Field("table_catalog", "STRING", "NULLABLE"),
      Field("table_schema", "STRING", "NULLABLE"),
      Field("table_name", "STRING", "REQUIRED"),
      Field("column_name", "STRING", "REQUIRED"),
      Field("ordinal_position", "INTEGER", "NULLABLE"),
      Field("column_default", "STRING", "NULLABLE"),
      Field("is_nullable", "STRING", "NULLABLE"),
      Field("spanner_data_type", "STRING", "REQUIRED"),
      Field("is_generated", "STRING", "NULLABLE"),
      Field("generation_expression", "STRING", "NULLABLE")>>

\* a table some earlier version of the job created
LegacySchema == SubSeq(BQ_SCHEMA, 1, 3)

NoDataset == [dataset |-> FALSE, table |-> FALSE, schema |-> <<>>, rows |-> <<>>]
NoTable == [dataset |-> TRUE, table |-> FALSE, schema |-> <<>>, rows |-> <<>>]
Table(schema, stored) == [dataset |-> TRUE, table |-> TRUE, schema |-> schema, rows |-> stored]

\* a row an earlier run loaded
OldRow(k) ==
    Enrich(Zip(QueryFields, CatalogRow(k)), <<"P", "0">>, InstanceShort(1), DbShort(1))

\* Fault-injected variant of l.186-188: NotFound is swallowed, nothing is created.
EnsureDatasetOnlyChecks(d) == d

\* l.183-188: get_dataset, and create_dataset on NotFound
EnsureDataset(d) == IF d.dataset THEN d ELSE [d EXCEPT !.dataset = TRUE]

\* l.190-200: get_table, then TRUNCATE TABLE, or create_table on NotFound;
\* create_table in a dataset that does not exist raises NotFound.
EnsureTable(d) ==
    IF d.table THEN Returned([d EXCEPT !.rows = <<>>])
    ELSE IF d.dataset
    THEN Returned([d EXCEPT !.table = TRUE, !.schema = BQ_SCHEMA, !.rows = <<>>])
    ELSE Propagated("NotFound")

\* l.195 runs exactly when get_table found the table
Truncates(d) == EnsureDataset(d).table

setup_bigquery_table(d) == EnsureTable(EnsureDataset(d))

(***************************************************************************)
(* insert_rows_json (l.244): the rows at the positions in `bad` are        *)
(* reported as per-row errors and not stored; the others are appended.     *)
(***************************************************************************)
ErrorSets(n) == {{}, {1}, 1..n}

RECURSIVE Accepted(_, _, _)
Accepted(batch, bad, k) ==
    IF k > Len(batch) THEN <<>>
    ELSE (IF k \in bad THEN <<>> ELSE <<batch[k]>>) \o Accepted(batch, bad, k + 1)

insert_rows_json(d, batch, bad) == [d EXCEPT !.rows = @ \o Accepted(batch, bad, 1)]

(***************************************************************************)
(* main (l.203-254).                                                       *)
(***************************************************************************)
\* l.238
FlushDue(idx, total) == (idx + 1) % FlushEvery = 0 \/ (idx + 1) = total

\* Fault-injected variant of l.252: the rejected rows stay in the buffer.
BufferKeepsRejected(batch, errors) == Accepted(batch, (1..Len(batch)) \ errors, 1)

\* Fault-injected variant of l.252: the buffer is not cleared.
BufferNotCleared(batch, errors) == batch

\* l.252: the buffer after an insert that reported `errors`
BufferAfterInsert(batch, errors) == <<>>

\* l.216: the for loop moves to the next project or ends
AfterProject(idx) == IF idx + 1 = total_projects THEN "done" ELSE "loop"

\* The Spanner backends the driver meets for one project: no instance, a
\* refused instance listing, or one instance holding a backup and one database
\* (two databases in the first project of the list).
DriverWorlds(project_id) ==
    LET one == InstanceName(project_id, 1, TRUE)
        dbs == IF project_id = TARGET_PROJECTS[1]
               THEN <<DbName(one, 1, "database"), DbName(one, 2, "backup"),
                      DbName(one, 3, "database")>>
               ELSE <<DbName(one, 1, "database"), DbName(one, 2, "backup")>>
    IN {[instances |-> <<>>, fault |-> NoFault],
        [instances |-> <<>>,
         fault |-> [where |-> "instances", inst |-> 0, after |-> 0, exc |-> "PermissionDenied"]],
        [instances |-> <<[name |-> one, databases |-> dbs]>>, fault |-> NoFault]}

NoWorld == [instances |-> <<>>, fault |-> NoFault]

Abort ==
    /\ pc' = "aborted"
    /\ UNCHANGED <<total_projects, i, bq, all_metadata_rows, spanner_resources, r, rows, caught,
                   discoveryLog, returned, flushLog, insertCalls, insertErrors, setupCalls,
                   truncations, world, db, dest0>>

\* l.208-214
Setup ==
    /\ pc = "start"
    /\ LET res == setup_bigquery_table(bq)
       IN /\ bq' = IF res.raised # "none" THEN bq ELSE res.value
          /\ pc' = IF res.raised # "none" THEN "aborted"
                   ELSE IF total_projects = 0 THEN "done" ELSE "loop"
    /\ setupCalls' = setupCalls + 1
    /\ truncations' = truncations + (IF Truncates(bq) THEN 1 ELSE 0)
    /\ all_metadata_rows' = <<>>
    /\ i' = 0
    /\ UNCHANGED <<total_projects, spanner_resources, r, rows, caught, discoveryLog, returned,
                   flushLog, insertCalls, insertErrors, world, db, dest0>>

\* Fault-injected variant of l.209: the destination is provisioned at the top
\* of every iteration of the project loop.
DiscoverReprovisions ==
    /\ pc = "loop"
    /\ \E w \in DriverWorlds(TARGET_PROJECTS[i + 1]) :
        LET res == list_spanner_resources(TARGET_PROJECTS[i + 1], w)
            dst == setup_bigquery_table(bq)
        IN IF res.raised # "none" \/ dst.raised # "none" THEN Abort
           ELSE /\ world' = w
                /\ bq' = dst.value
                /\ setupCalls' = setupCalls + 1
                /\ truncations' = truncations + (IF Truncates(bq) THEN 1 ELSE 0)
                /\ spanner_resources' = res.value
                /\ caught' = res.caught
                /\ discoveryLog' = Append(discoveryLog, TARGET_PROJECTS[i + 1])
                /\ IF res.value = <<>>
                   THEN /\ i' = i + 1
                        /\ pc' = AfterProject(i)
                        /\ r' = r
                   ELSE /\ i' = i
                        /\ pc' = "extract"
                        /\ r' = 1
                /\ UNCHANGED <<total_projects, all_metadata_rows, rows, returned, flushLog,
                               insertCalls, insertErrors, db, dest0>>

\* l.216-226
Discover ==
    /\ pc = "loop"
    /\ \E w \in DriverWorlds(TARGET_PROJECTS[i + 1]) :
        LET res == list_spanner_resources(TARGET_PROJECTS[i + 1], w)
        IN IF res.raised # "none" THEN Abort
           ELSE /\ world' = w
                /\ spanner_resources' = res.value
                /\ caught' = res.caught
                /\ discoveryLog' = Append(discoveryLog, TARGET_PROJECTS[i + 1])
                /\ IF res.value = <<>>
                   THEN /\ i' = i + 1           \* l.222-224: continue
                        /\ pc' = AfterProject(i)
                        /\ r' = r
                   ELSE /\ i' = i
                        /\ pc' = "extract"
                        /\ r' = 1
                /\ UNCHANGED <<total_projects, bq, all_metadata_rows, rows, returned, flushLog,
                               insertCalls, insertErrors, setupCalls, truncations, db, dest0>>

\* l.229-235, one iteration
Extract ==
    /\ pc = "extract"
    /\ \E d \in DbStates :
        LET resource == spanner_resources[r]
            res == get_spanner_metadata(TARGET_PROJECTS[i + 1], resource.instance_id,
                                        resource.database_id, d)
        IN IF res.raised # "none" THEN Abort
           ELSE /\ db' = d
                /\ rows' = res.value
                /\ caught' = res.caught
                /\ all_metadata_rows' = all_metadata_rows \o res.value
                /\ returned' = returned \cup Range(res.value)
                /\ r' = r + 1
                /\ pc' = IF r = Len(spanner_resources) THEN "cadence" ELSE "extract"
                /\ UNCHANGED <<total_projects, i, bq, spanner_resources, discoveryLog, flushLog,
                               insertCalls, insertErrors, setupCalls, truncations, world, dest0>>

\* l.238 false
NoFlush ==
    /\ pc = "cadence"
    /\ ~FlushDue(i, total_projects)
    /\ i' = i + 1
    /\ pc' = AfterProject(i)
    /\ UNCHANGED <<total_projects, bq, all_metadata_rows, spanner_resources, r, rows, caught,
                   discoveryLog, returned, flushLog, insertCalls, insertErrors, setupCalls,
                   truncations, world, db, dest0>>

\* l.238-252
FlushInsert ==
    /\ pc = "cadence"
    /\ FlushDue(i, total_projects)
    /\ all_metadata_rows # <<>>
    /\ \E errors \in ErrorSets(Len(all_metadata_rows)) :
        /\ bq' = insert_rows_json(bq, all_metadata_rows, errors)
        /\ insertErrors' = (insertErrors \/ errors # {})
        /\ all_metadata_rows' = BufferAfterInsert(all_metadata_rows, errors)
    /\ insertCalls' = Append(insertCalls, all_metadata_rows)
    /\ flushLog' = Append(flushLog, i + 1)
    /\ i' = i + 1
    /\ pc' = AfterProject(i)
    /\ UNCHANGED <<total_projects, spanner_resources, r, rows, caught, discoveryLog, returned,
                   setupCalls, truncations, world, db, dest0>>

\* l.238-239, 253-254
FlushEmpty ==
    /\ pc = "cadence"
    /\ FlushDue(i, total_projects)
    /\ all_metadata_rows = <<>>
    /\ flushLog' = Append(flushLog, i + 1)
    /\ i' = i + 1
    /\ pc' = AfterProject(i)
    /\ UNCHANGED <<total_projects, bq, all_metadata_rows, spanner_resources, r, rows, caught,
                   discoveryLog, returned, insertCalls, insertErrors, setupCalls, truncations,
                   world, db, dest0>>

Init ==
    /\ pc = "start"
    /\ total_projects \in 0..MaxProjects
    /\ i = 0
    /\ bq \in {NoDataset, NoTable, Table(BQ_SCHEMA, <<OldRow(1)>>)}
    /\ all_metadata_rows = <<>>
    /\ spanner_resources = <<>>
    /\ r = 1
    /\ rows = <<>>
    /\ caught = "none"
    /\ discoveryLog = <<>>
    /\ returned = {}
    /\ flushLog = <<>>
    /\ insertCalls = <<>>
    /\ insertErrors = FALSE
    /\ setupCalls = 0
    /\ truncations = 0
    /\ world = NoWorld
    /\ db = [ncols |-> 0, fault |-> NoDbFault]
    /\ dest0 = NoDataset

Next == Setup \/ Discover \/ Extract \/ NoFlush \/ FlushInsert \/ FlushEmpty

Spec == Init /\ [][Next]_vars

(***************************************************************************)
(* ListSpec: list_spanner_resources applied to every backend World builds. *)
(***************************************************************************)
ListInit ==
    /\ pc = "list"
    /\ total_projects = 1
    /\ i = 0
    /\ bq = NoDataset
    /\ all_metadata_rows = <<>>
    /\ spanner_resources = <<>>
    /\ r = 1
    /\ rows = <<>>
    /\ caught = "none"
    /\ discoveryLog = <<>>
    /\ returned = {}
    /\ flushLog = <<>>
    /\ insertCalls = <<>>
    /\ insertErrors = FALSE
    /\ setupCalls = 0
    /\ truncations = 0
    /\ \E sh \in Shapes, qualified \in BOOLEAN :
        \E fault \in Faults(sh) : world = World(TARGET_PROJECTS[1], sh, qualified, fault)
    /\ db = [ncols |-> 0, fault |-> NoDbFault]
    /\ dest0 = NoDataset

ListCall ==
    /\ pc = "list"
    /\ LET res == list_spanner_resources(TARGET_PROJECTS[1], world)
       IN /\ spanner_resources' = res.value
          /\ caught' = res.caught
          /\ pc' = IF res.raised # "none" THEN "aborted" ELSE "listed"
    /\ discoveryLog' = Append(discoveryLog, TARGET_PROJECTS[1])
    /\ UNCHANGED <<total_projects, i, bq, all_metadata_rows, r, rows, returned, flushLog,
                   insertCalls, insertErrors, setupCalls, truncations, world, db, dest0>>

ListNext == ListCall

ListSpec == ListInit /\ [][ListNext]_vars

(***************************************************************************)
(* SetupSpec: setup_bigquery_table called MaxSetupCalls times in a row on  *)
(* every destination of DestStates.                                        *)
(***************************************************************************)
StoredRows == UNION {[1..n -> {OldRow(k) : k \in 1..MaxOldRows}] : n \in 0..MaxOldRows}

DestStates ==
    {NoDataset, NoTable}
    \cup {Table(schema, stored) : schema \in {BQ_SCHEMA, LegacySchema}, stored \in StoredRows}

SetupInit ==
    /\ pc = "setup"
    /\ total_projects = 0
    /\ i = 0
    /\ bq \in DestStates
    /\ dest0 = bq
    /\ all_metadata_rows = <<>>
    /\ spanner_resources = <<>>
    /\ r = 1
    /\ rows = <<>>
    /\ caught = "none"
    /\ discoveryLog = <<>>
    /\ returned = {}
    /\ flushLog = <<>>
    /\ insertCalls = <<>>
    /\ insertErrors = FALSE
    /\ setupCalls = 0
    /\ truncations = 0
    /\ world = NoWorld
    /\ db = [ncols |-> 0, fault |-> NoDbFault]

SetupCall ==
    /\ pc = "setup"
    /\ setupCalls < MaxSetupCalls
    /\ LET res == setup_bigquery_table(bq)
       IN /\ bq' = IF res.raised # "none" THEN bq ELSE res.value
          /\ pc' = IF res.raised # "none" THEN "aborted" ELSE "setup"
    /\ setupCalls' = setupCalls + 1
    /\ truncations' = truncations + (IF Truncates(bq) THEN 1 ELSE 0)
    /\ UNCHANGED <<total_projects, i, all_metadata_rows, spanner_resources, r, rows, caught,
                   discoveryLog, returned, flushLog, insertCalls, insertErrors, world, db, dest0>>

SetupNext == SetupCall

SetupSpec == SetupInit /\ [][SetupNext]_vars

(***************************************************************************)
(* Properties.                                                             *)
(***************************************************************************)

\* C1: when a run of main has completed (and no insert reported row errors),
\* the destination table holds exactly the rows the extractions of the run
\* returned: every such row is stored and no other row is.
C1_TableHoldsReturnedRows ==
    (pc = "done" /\ ~insertErrors) => Range(bq.rows) = returned

ExpectedFlushes(n) ==
    SelectSeq([k \in 1..n |-> k], LAMBDA k : k % 5 = 0 \/ k = n)

\* C2: for a project list of length N >= 1 the flush block runs after the
\* project at 1-based position k exactly when k is a multiple of 5 or k = N,
\* whatever discovery returned, so a completed run made ceil(N/5) flushes.
C2_FlushCadence ==
    (pc = "done" /\ total_projects >= 1) =>
        /\ flushLog = ExpectedFlushes(total_projects)
        /\ Len(flushLog) = (total_projects + 4) \div 5

\* C3: list_spanner_resources never raises, and whenever a listing fails at
\* any point of the enumeration it returns an empty sequence.
C3_DiscoveryFailureYieldsEmpty ==
    /\ pc # "aborted"
    /\ (pc = "listed" /\ world.fault.where # "none") => spanner_resources = <<>>

\* C4: a get_spanner_metadata call never raises; when the database fails at
\* any point of the call it returns an empty sequence, so that the buffer is
\* left as it was, and main goes on with the next resource of the project.
C4_ExtractionNeverRaises ==
    [][pc = "extract" =>
        /\ pc' = (IF r < Len(spanner_resources) THEN "extract" ELSE "cadence")
        /\ r' = r + 1
        /\ i' = i
        /\ spanner_resources' = spanner_resources
        /\ (db'.fault.where # "none" =>
                rows' = <<>> /\ all_metadata_rows' = all_metadata_rows)]_vars

C4_Witness ==
    /\ pc = "extract"
    /\ r = 2
    /\ db.fault.where = "query"
    /\ db.fault.after = 1
    /\ rows = <<>>
    /\ all_metadata_rows = <<>>

PcRank ==
    CASE pc = "start" -> 0
      [] pc = "loop" -> 1
      [] pc = "extract" -> 2
      [] pc = "cadence" -> 3
      [] OTHER -> 4

\* C5: whatever discovery, extraction and insert report, main calls discovery
\* once for every project of the list, in list order, and terminates normally:
\* it never aborts, it can always take a step until it is done, and every step
\* makes progress in (i, position in the iteration, r).
C5_FaultIsolation ==
    /\ [](/\ pc # "aborted"
          /\ i <= total_projects
          /\ (pc = "extract" => r \in 1..Len(spanner_resources))
          /\ Len(discoveryLog) = (IF pc \in {"extract", "cadence"} THEN i + 1 ELSE i)
          /\ discoveryLog = SubSeq(TARGET_PROJECTS, 1, Len(discoveryLog))
          /\ (pc = "done" => discoveryLog = TARGET_PROJECTS)
          /\ (pc # "done" => ENABLED Next))
    /\ [][\/ i' > i
          \/ i' = i /\ PcRank' > PcRank
          \/ i' = i /\ PcRank' = PcRank /\ r' > r]_vars

C5_Witness ==
    /\ pc = "done"
    /\ total_projects > FlushEvery
    /\ insertErrors
    /\ world.fault.exc = "PermissionDenied"
    /\ db.fault.where # "none"
    /\ discoveryLog = TARGET_PROJECTS

\* C6: setup_bigquery_table is called exactly once, before any discovery,
\* extraction or insert; the table is truncated at most once per run, and
\* never after a bulk insert of the run.
C6_ProvisionedOnceFirst ==
    /\ [](/\ setupCalls <= 1
          /\ truncations <= 1
          /\ (pc # "start" => setupCalls = 1)
          /\ (setupCalls = 0 => discoveryLog = <<>> /\ returned = {} /\ insertCalls = <<>>))
    /\ [][(setupCalls' # setupCalls \/ truncations' # truncations) =>
            discoveryLog = <<>> /\ returned = {} /\ insertCalls = <<>>]_vars

C6_Witness ==
    /\ pc = "done"
    /\ truncations = 1
    /\ Len(insertCalls) = 2

\* C7: a flush with a non-empty buffer makes exactly one bulk insert carrying
\* all buffered rows and leaves the buffer empty, with or without row errors;
\* a flush with an empty buffer makes no insert and leaves the table as it is.
C7_FlushContract ==
    [][flushLog' # flushLog =>
        /\ all_metadata_rows' = <<>>
        /\ IF all_metadata_rows # <<>>
           THEN insertCalls' = Append(insertCalls, all_metadata_rows)
           ELSE insertCalls' = insertCalls /\ bq' = bq]_vars

C7_Witness ==
    /\ insertErrors
    /\ insertCalls # <<>>
    /\ all_metadata_rows = <<>>
    /\ Len(bq.rows) < Len(Flatten(insertCalls))
    /\ Len(flushLog) > Len(insertCalls)

\* C8: from any destination (no dataset; a dataset without the table; the
\* table with rows) setup_bigquery_table returns without error and leaves the
\* dataset and the table existing and the table empty, a table it created
\* having the 13 fields of BQ_SCHEMA; a second call raises no error and
\* leaves the schema as it was.
C8_SetupPostcondition ==
    /\ pc # "aborted"
    /\ setupCalls >= 1 =>
        /\ bq = Table(IF dest0.table THEN dest0.schema ELSE BQ_SCHEMA, <<>>)
        /\ (~dest0.table => Len(bq.schema) = 13)

C8_Witness ==
    /\ setupCalls = 2
    /\ dest0 = NoDataset
    /\ bq.dataset /\ bq.table
    /\ bq.schema = BQ_SCHEMA

\* the (instance name, database name) pairs the listings yielded, from instance k on
RECURSIVE Yielded(_, _)
Yielded(w, k) ==
    IF k > Len(w.instances) \/ (w.fault.where = "instances" /\ w.fault.after < k) THEN <<>>
    ELSE LET inst == w.instances[k]
             cut == w.fault.where = "databases" /\ w.fault.inst = k
             dbs == IF cut THEN SubSeq(inst.databases, 1, w.fault.after) ELSE inst.databases
         IN [j \in 1..Len(dbs) |-> [instance |-> inst.name, database |-> dbs[j]]]
                \o (IF cut THEN <<>> ELSE Yielded(w, k + 1))

\* id is the last path segment of raw
ShortFormOf(id, raw) ==
    /\ ~Contains(id, <<"/">>)
    /\ \E k \in 1..(Len(raw) + 1) :
        /\ id = SubSeq(raw, k, Len(raw))
        /\ k > 1 => raw[k - 1] = "/"

PairsFor(kept) ==
    /\ Len(spanner_resources) = Len(kept)
    /\ \A n \in 1..Len(kept) :
        /\ ShortFormOf(spanner_resources[n].instance_id, kept[n].instance)
        /\ ShortFormOf(spanner_resources[n].database_id, kept[n].database)

C10_AtMostOnce ==
    /\ NoDuplicates(Flatten(insertCalls))
    /\ Range(all_metadata_rows) \cap Range(Flatten(insertCalls)) = {}
    /\ NoDuplicates(bq.rows)

C10_Witness ==
    /\ pc = "done"
    /\ Len(insertCalls) = 2
    /\ Len(insertCalls[1]) >= 2
    /\ Len(bq.rows) = Len(Flatten(insertCalls))

====
